---- MODULE Spec2Model ----
(***************************************************************************)
(* Model of palindrome.py: findLongestPalindrome and getPalindromeAt.      *)
(* Indices are zero-based as in the source; a Python string is a TLA+      *)
(* sequence of one-character strings, so string[i] is string[i + 1] here.  *)
(***************************************************************************)
EXTENDS Integers, Sequences, FiniteSets, TLC

MaxLen == 5

Alphabet == {"a", "b", "c"}

Strings == UNION {[1..n -> Alphabet] : n \in 0..MaxLen}

\* positions a direct caller of getPalindromeAt may pass
Positions == (0 - (MaxLen + 1))..(MaxLen + 1)

VARIABLES string, entry, pc, position, longest, longestAt, pairIdx,
          lower, upper, span, ret, result, iters, total, visits

vars == <<string, entry, pc, position, longest, longestAt, pairIdx,
          lower, upper, span, ret, result, iters, total, visits>>

Min(a, b) == IF a < b THEN a ELSE b

\* ---------------------------------------------------------------------
\* Python primitives
\* ---------------------------------------------------------------------

\* s[i]: a negative index counts from the end, anything else out of range
\* raises IndexError
Read(s, i) ==
    IF i >= 0 /\ i < Len(s) THEN s[i + 1]
    ELSE IF i < 0 /\ i + Len(s) >= 0 THEN s[i + Len(s) + 1]
    ELSE "IndexError"

\* normalisation of one slice bound against a sequence of length n
SliceBound(i, n) ==
    IF i < 0 THEN (IF i + n < 0 THEN 0 ELSE i + n)
    ELSE (IF i > n THEN n ELSE i)

\* s[a:b]
Slice(s, a, b) ==
    LET lo == SliceBound(a, Len(s))
        hi == SliceBound(b, Len(s))
    IN  IF lo >= hi THEN << >> ELSE SubSeq(s, lo + 1, hi)

\* max(a, b, key = len): the first maximal argument is returned
MaxStrLast(a, b) == b
MaxStrGe(a, b) == IF Len(b) >= Len(a) THEN b ELSE a
MaxStr(a, b) == IF Len(b) > Len(a) THEN b ELSE a

\* max(a, b, key = lambda a: a[1] - a[0]) on (lower, upper) pairs
MaxSpan(a, b) == IF b[2] - b[1] > a[2] - a[1] THEN b ELSE a

\* ---------------------------------------------------------------------
\* getPalindromeAt helpers
\* ---------------------------------------------------------------------

\* the list of starting pointers: odd start first, then even start
PairsOddOnly(p) == << <<p - 1, p + 1>>, <<p - 1, p + 1>> >>
Pairs(p) == << <<p - 1, p + 1>>, <<p, p + 1>> >>

\* the two bounds conjuncts of the while condition
InBoundsUpperOnly(s, lo, hi) == hi < Len(s)
InBounds(s, lo, hi) == lo >= 0 /\ hi < Len(s)

\* the comparison conjunct of the while condition
MatchesAlways(s, lo, hi) == TRUE
MatchesNegated(s, lo, hi) == Read(s, lo) # Read(s, hi)
Matches(s, lo, hi) == Read(s, lo) = Read(s, hi)

\* the span recorded after an expansion stops
CandidateRaw(lo, hi) == <<lo, hi>>
Candidate(lo, hi) == <<lo + 1, hi - 1>>

\* ---------------------------------------------------------------------
\* Initial state: either findLongestPalindrome(string) is entered, or
\* getPalindromeAt(position, string) is called directly
\* ---------------------------------------------------------------------
Init ==
    /\ string \in Strings
    /\ entry \in {"find", "at"}
    /\ position \in (IF entry = "find" THEN {0} ELSE Positions)
    /\ pc = (IF entry = "find" THEN "for" ELSE "call")
    /\ longest = << >>
    /\ longestAt = <<0, 0>>
    /\ pairIdx = 1
    /\ lower = 0
    /\ upper = 0
    /\ span = <<0, 0>>
    /\ ret = << >>
    /\ result = << >>
    /\ iters = 0
    /\ total = 0
    /\ visits = [p \in 0..(Len(string) - 1) |-> 0]

\* ---------------------------------------------------------------------
\* findLongestPalindrome
\* ---------------------------------------------------------------------

\* for position in xrange(len(string)): the body is entered
ForEnter ==
    /\ pc = "for"
    /\ position < Len(string)
    /\ pc' = "call"
    /\ visits' = [visits EXCEPT ![position] = @ + 1]
    /\ UNCHANGED <<span, string, entry, position, longest, longestAt, pairIdx,
                   lower, upper, ret, result, iters, total>>

\* the range is exhausted: return longest
FindReturn ==
    /\ pc = "for"
    /\ position >= Len(string)
    /\ result' = longest
    /\ pc' = "done"
    /\ UNCHANGED <<span, string, entry, position, longest, longestAt, pairIdx,
                   lower, upper, ret, iters, total, visits>>

\* longest = max(longest, getPalindromeAt(position, string), key = len)
\* and the iterator advances
Update ==
    /\ pc = "update"
    /\ longest' = MaxStr(longest, ret)
    /\ position' = position + 1
    /\ pc' = "for"
    /\ UNCHANGED <<span, string, entry, longestAt, pairIdx, lower, upper, ret,
                   result, iters, total, visits>>

\* ---------------------------------------------------------------------
\* getPalindromeAt
\* ---------------------------------------------------------------------

\* longest = (position, position)
Call ==
    /\ pc = "call"
    /\ longestAt' = <<position, position>>
    /\ pairIdx' = 1
    /\ pc' = "pair"
    /\ UNCHANGED <<span, string, entry, position, longest, lower, upper, ret,
                   result, iters, total, visits>>

\* for lower, upper in [...]: the next pair of starting pointers is bound
PairNext ==
    /\ pc = "pair"
    /\ pairIdx <= Len(Pairs(position))
    /\ lower' = Pairs(position)[pairIdx][1]
    /\ upper' = Pairs(position)[pairIdx][2]
    /\ iters' = 0
    /\ pc' = "test"
    /\ UNCHANGED <<span, string, entry, position, longest, longestAt, pairIdx,
                   ret, result, total, visits>>

\* while lower >= 0 and upper < len(string) ...: the bounds conjuncts
WhileTest ==
    /\ pc = "test"
    /\ pc' = (IF InBounds(string, lower, upper) THEN "compare" ELSE "select")
    /\ UNCHANGED <<span, string, entry, position, longest, longestAt, pairIdx,
                   lower, upper, ret, result, iters, total, visits>>

\* ... and string[lower] == string[upper]: both characters are read
Compare ==
    /\ pc = "compare"
    /\ pc' = (IF Read(string, lower) = "IndexError"
                 \/ Read(string, upper) = "IndexError" THEN "error"
              ELSE IF Matches(string, lower, upper) THEN "expand"
              ELSE "select")
    /\ UNCHANGED <<span, string, entry, position, longest, longestAt, pairIdx,
                   lower, upper, ret, result, iters, total, visits>>

\* loop body: upper += 1; lower -= 1
ExpandLowerOnly ==
    /\ pc = "expand"
    /\ lower' = lower - 1
    /\ iters' = iters + 1
    /\ total' = total + 1
    /\ pc' = "test"
    /\ UNCHANGED <<span, string, entry, position, longest, longestAt, pairIdx,
                   upper, ret, result, visits>>

Expand ==
    /\ pc = "expand"
    /\ upper' = upper + 1
    /\ lower' = lower - 1
    /\ iters' = iters + 1
    /\ total' = total + 1
    /\ pc' = "test"
    /\ UNCHANGED <<span, string, entry, position, longest, longestAt, pairIdx,
                   ret, result, visits>>

\* longest = max(longest, (lower + 1, upper - 1), key = span width)
Select ==
    /\ pc = "select"
    /\ span' = Candidate(lower, upper)
    /\ longestAt' = MaxSpan(longestAt, Candidate(lower, upper))
    /\ pairIdx' = pairIdx + 1
    /\ pc' = "pair"
    /\ UNCHANGED <<string, entry, position, longest, lower, upper, ret,
                   result, iters, total, visits>>

\* return string[longest[0] : longest[1] + 1]
ReturnAt ==
    /\ pc = "pair"
    /\ pairIdx > Len(Pairs(position))
    /\ ret' = Slice(string, longestAt[1], longestAt[2] + 1)
    /\ result' = (IF entry = "at"
                  THEN Slice(string, longestAt[1], longestAt[2] + 1)
                  ELSE result)
    /\ pc' = (IF entry = "at" THEN "done" ELSE "update")
    /\ UNCHANGED <<span, string, entry, position, longest, longestAt, pairIdx,
                   lower, upper, iters, total, visits>>

Next ==
    \/ ForEnter
    \/ FindReturn
    \/ Update
    \/ Call
    \/ PairNext
    \/ WhileTest
    \/ Compare
    \/ Expand
    \/ Select
    \/ ReturnAt

Spec == Init /\ [][Next]_vars

\* the interpreter always takes the next step of a running call
LiveSpec == Init /\ [][Next]_vars /\ WF_vars(Next)

\* ---------------------------------------------------------------------
\* Reference notions the properties are stated against
\* ---------------------------------------------------------------------

\* s[lo..hi], inclusive zero-based bounds
Sub(s, lo, hi) == SubSeq(s, lo + 1, hi + 1)

IsPalindrome(r) == \A i \in 1..Len(r) : r[i] = r[Len(r) + 1 - i]

\* inclusive spans of string that lie inside it and read the same both ways
PalSpans(s) ==
    {sp \in (0..(Len(s) - 1)) \X (0..(Len(s) - 1)) :
        sp[1] <= sp[2] /\ IsPalindrome(Sub(s, sp[1], sp[2]))}

SetMax(S) == CHOOSE x \in S : \A y \in S : y <= x

SetMin(S) == CHOOSE x \in S : \A y \in S : x <= y

MaxPalLen(s) == SetMax({0} \cup {sp[2] - sp[1] + 1 : sp \in PalSpans(s)})

\* starting indices of the palindromic spans of maximum length
MaxPalStarts(s) ==
    {sp[1] : sp \in {q \in PalSpans(s) : q[2] - q[1] + 1 = MaxPalLen(s)}}

\* largest k with s[p-k..p+k] inside s and palindromic (p inside s)
OddRadius(s, p) ==
    SetMax({k \in 0..Len(s) :
              /\ p - k >= 0
              /\ p + k <= Len(s) - 1
              /\ IsPalindrome(Sub(s, p - k, p + k))})

\* largest m with s[p-m+1..p+m] inside s and palindromic, 0 if there is none
EvenRadius(s, p) ==
    SetMax({0} \cup {m \in 1..Len(s) :
                       /\ p - m + 1 >= 0
                       /\ p + m <= Len(s) - 1
                       /\ IsPalindrome(Sub(s, p - m + 1, p + m))})

LongestCenteredAt(s, p) ==
    LET k == OddRadius(s, p)
        m == EvenRadius(s, p)
    IN  IF 2 * m > 2 * k + 1 THEN Sub(s, p - m + 1, p + m)
        ELSE Sub(s, p - k, p + k)

InString(s, p) == p >= 0 /\ p <= Len(s) - 1

FindDone == entry = "find" /\ pc = "done"

\* getPalindromeAt has just returned ret for the current position
AtReturned == pc = "update" \/ (entry = "at" /\ pc = "done")

\* the i-th pair of starting pointers for position p already fails the
\* expansion condition
StartFails(s, p, i) ==
    LET lo == Pairs(p)[i][1]
        hi == Pairs(p)[i][2]
    IN  ~(lo >= 0 /\ hi < Len(s) /\ s[lo + 1] = s[hi + 1])

NoAdjacentEqual(s) == \A i \in 1..(Len(s) - 1) : s[i] # s[i + 1]

NoSkipEqual(s) == \A i \in 1..(Len(s) - 2) : s[i] # s[i + 2]

\* ---------------------------------------------------------------------
\* Properties
\* ---------------------------------------------------------------------

\* C1: the length of findLongestPalindrome(string) is the maximum length
\* over all palindromic substrings of string, so none is strictly longer.
C1_ResultIsLongest == FindDone => Len(result) = MaxPalLen(string)

C1_Witness ==
    /\ FindDone
    /\ Len(string) = 4
    /\ Len(result) = 2
    /\ result = Sub(string, 2, 3)

\* C2: the string returned by findLongestPalindrome reads the same in
\* both directions under direct character equality.
C2_ResultIsPalindrome == FindDone => IsPalindrome(result)

C2_Witness == FindDone /\ Len(result) = 3 /\ Len(string) > 3

\* C3: findLongestPalindrome(string) is empty or equals string[lo..hi] for
\* indices inside the string, and the span selected for each scanned
\* position lies inside the string.
C3_ResultIsSubstring ==
    /\ FindDone =>
         \/ result = << >>
         \/ \E lo \in 0..(Len(string) - 1) : \E hi \in lo..(Len(string) - 1) :
               result = Sub(string, lo, hi)
    /\ (entry = "find" /\ pc = "update") =>
         /\ 0 <= longestAt[1]
         /\ longestAt[1] <= longestAt[2]
         /\ longestAt[2] <= Len(string) - 1
         /\ ret = Sub(string, longestAt[1], longestAt[2])

C3_Witness ==
    /\ FindDone
    /\ Len(result) >= 2
    /\ Len(result) < Len(string)
    /\ result # SubSeq(string, 1, Len(result))

\* C4: among the palindromic substrings of maximum length the one with the
\* smallest starting index is returned, and the running best is replaced
\* only by a strictly longer candidate.
C4_LeftmostWins ==
    /\ [](FindDone /\ string # << >> =>
            result = Sub(string, SetMin(MaxPalStarts(string)),
                         SetMin(MaxPalStarts(string)) + MaxPalLen(string) - 1))
    /\ [][longest' # longest => Len(longest') > Len(longest)]_vars

C4_Witness ==
    /\ FindDone
    /\ Cardinality(MaxPalStarts(string)) >= 2
    /\ \E st \in MaxPalStarts(string) :
          Sub(string, st, st + MaxPalLen(string) - 1) # result

\* C5: during findLongestPalindrome every character comparison reads
\* string[lower] and string[upper] with both indices in [0, len(string)-1],
\* and no read fails.
C5_ReadsInBounds ==
    entry = "find" =>
      /\ pc # "error"
      /\ pc = "compare" => InString(string, lower) /\ InString(string, upper)

C5_Witness ==
    /\ entry = "find"
    /\ pc = "compare"
    /\ lower = 0
    /\ upper = Len(string) - 1
    /\ iters >= 1

\* C6: for a position outside [0, len(string)-1], getPalindromeAt returns
\* the empty string.
C6_OutOfRangeIsEmpty ==
    (entry = "at" /\ pc = "done" /\ ~InString(string, position))
        => result = << >>

\* C7: for a position inside the string, getPalindromeAt returns the longer
\* of the maximal odd palindrome about that index and the maximal even
\* palindrome about the gap after it.
C7_LongestAtCenter ==
    (AtReturned /\ InString(string, position))
        => ret = LongestCenteredAt(string, position)

C7_Witness ==
    /\ AtReturned
    /\ InString(string, position)
    /\ Len(ret) = 4
    /\ position = 1

\* C8: findLongestPalindrome always reaches its return; each expansion
\* loop runs at most min(lower+1, len(string)-upper) times from its
\* starting pointers, and each position is visited exactly once.
C8_Terminates ==
    /\ []((entry = "find" /\ pc \in {"test", "compare", "expand", "select"})
            => iters <= Min(Pairs(position)[pairIdx][1] + 1,
                            Len(string) - Pairs(position)[pairIdx][2]))
    /\ [](entry = "find" => \A p \in DOMAIN visits : visits[p] <= 1)
    /\ <>(pc = "done"
            /\ (entry = "find" => \A p \in DOMAIN visits : visits[p] = 1))

C8_Witness ==
    /\ FindDone
    /\ Len(string) >= 3
    /\ total >= 3

\* C9 as stated: when the starting pointers already fail the expansion
\* condition, the recorded span (lower+1, upper-1) is zero-length, that is
\* its lower index is its upper index plus one, for the odd and the even
\* start alike.
C9_ZeroLengthBothStarts ==
    (pc = "pair" /\ pairIdx > 1 /\ StartFails(string, position, pairIdx - 1))
        => span[1] = span[2] + 1

\* C9 amended: when the starting pointers already fail the expansion
\* condition, the recorded span is (lower+1, upper-1) of the starting
\* pointers; for the even start it is the zero-length span (p+1, p), for
\* the odd start it is the one-index span (p, p).
C9_NoExpansionSpan ==
    (pc = "pair" /\ pairIdx > 1 /\ StartFails(string, position, pairIdx - 1))
        => /\ span = <<Pairs(position)[pairIdx - 1][1] + 1,
                       Pairs(position)[pairIdx - 1][2] - 1>>
           /\ pairIdx = 2 => span = <<position, position>>
           /\ pairIdx = 3 => span = <<position + 1, position>>
                               /\ span[1] = span[2] + 1

C9_Witness ==
    /\ pc = "pair"
    /\ pairIdx = 3
    /\ iters = 0
    /\ InString(string, position + 1)
    /\ InString(string, position)
    /\ string[position + 1] # string[position + 2]
    /\ span = <<position + 1, position>>

\* C10 as stated: if no two adjacent characters of the input are equal,
\* the expansion loop body is never executed during findLongestPalindrome.
C10_NoAdjacentNoExpansion ==
    (entry = "find" /\ NoAdjacentEqual(string)) => total = 0

\* C10 amended: if no two adjacent characters are equal and no two
\* characters one position apart are equal (the input has no palindromic
\* substring longer than one character), the loop body is never executed.
C10_NoPalindromeNoExpansion ==
    (entry = "find" /\ NoAdjacentEqual(string) /\ NoSkipEqual(string))
        => total = 0

C10_Witness ==
    /\ FindDone
    /\ Len(string) >= 3
    /\ NoAdjacentEqual(string)
    /\ NoSkipEqual(string)
    /\ total = 0
====
